---- MODULE Spec2Model ----
(***************************************************************************)
(* Model of the streaming chat turn of TangLLM's browser client:           *)
(* ChatManager.sendMessage / cancelRequest (src/frontend/js/chat.js),      *)
(* APIClient.sendMessageStream (src/unnamed/part_001) and the <think>       *)
(* extraction of parseMarkdown (src/frontend/js/utils.js).                  *)
(*                                                                         *)
(* Text is a sequence of one-character strings.  The JavaScript run-time   *)
(* is single threaded: every action below is one task of the event loop    *)
(* (a user event, a timer, the arrival of a chunk), run to its next await. *)
(* A promise that an action settles synchronously (a read closed by        *)
(* reader.cancel(), a fetch rejected by abort()) is continued in a         *)
(* microtask, i.e. before any other task: see MicrotaskPending.            *)
(***************************************************************************)
EXTENDS Integers, Sequences, FiniteSets, TLC

\* ------------------------------------------------------------------ bounds
MaxTurns == 2
MaxTokens == 3
MaxSelects == 3
MaxChunks == 3
MaxNow == 100
MaxFrames == 2

\* ------------------------------------------------------- program constants
RENDER_THROTTLE_MS == 50

\* ---------------------------------------------------------------- text
NL == "\n"
DataTag == <<"d", "a", "t", "a", ":", " ">>
OpenMarker == <<"<", "t", "h", "i", "n", "k">>
CloseMarker == <<"<", "/", "t", "h", "i", "n", "k", ">">>
Whitespace == {" ", NL}

\* String.prototype.startsWith
StartsWith(s, p) ==
    /\ Len(s) >= Len(p)
    /\ SubSeq(s, 1, Len(p)) = p

\* String.prototype.indexOf, 1-based; 0 when p does not occur in s.
IndexOf(s, p) ==
    LET hits == {i \in 1..(Len(s) - Len(p) + 1) : SubSeq(s, i, i + Len(p) - 1) = p}
    IN  IF hits = {} THEN 0 ELSE CHOOSE i \in hits : \A j \in hits : i <= j

\* String.prototype.includes
Includes(s, p) == IndexOf(s, p) # 0

\* String.prototype.slice(n): the text from (0-based) offset n on.
Slice(s, n) == SubSeq(s, n + 1, Len(s))

\* String.prototype.split with a non-empty separator: leftmost matches,
\* never overlapping; the empty text splits to one empty part.
RECURSIVE Split(_, _)
Split(s, sep) ==
    LET i == IndexOf(s, sep)
    IN  IF i = 0 THEN <<s>>
        ELSE <<SubSeq(s, 1, i - 1)>> \o Split(SubSeq(s, i + Len(sep), Len(s)), sep)

\* String.prototype.trim() is non-empty
TrimNonEmpty(s) == \E i \in 1..Len(s) : s[i] \notin Whitespace

RECURSIVE Concat(_)
Concat(ss) == IF ss = <<>> THEN <<>> ELSE Head(ss) \o Concat(Tail(ss))

\* --------------------------------------------------------------- events
Ev(type, content, id) == [type |-> type, content |-> content, id |-> id]
SyntaxError == Ev("SyntaxError", <<>>, 0)

TagType(c) ==
    CASE c = "n" -> "annotation"
      [] c = "i" -> "image_generated"
      [] c = "u" -> "audio_generated"
      [] c = "e" -> "error"
      [] OTHER -> "other"

DigitValue(c) == IF c = "1" THEN 1 ELSE 2

\* The title a done event may carry.
NewTitle == <<"t">>

\* JSON.parse(line.slice(6)).  The payload grammar stands for the JSON
\* objects of the wire schema: "{" tag body "}" with tag c (content, body
\* the fragment), n (annotation), i (image_generated), u (audio_generated),
\* e (error), d (done, body the id 1 or 2, then the title if the event has
\* one), x (an object of another type).
\* Any other text, in particular a proper prefix of a payload or a payload
\* followed by more text, throws SyntaxError.
JSONParse(s) ==
    IF \/ Len(s) < 3
       \/ s[1] # "{"
       \/ s[Len(s)] # "}"
       \/ \E i \in 2..(Len(s) - 1) : s[i] \in {"{", "}"}
    THEN SyntaxError
    ELSE LET tag == s[2]
             body == SubSeq(s, 3, Len(s) - 1)
         IN  CASE tag = "c" -> Ev("content", body, 0)
               [] /\ tag = "d"
                  /\ Len(body) >= 1
                  /\ body[1] \in {"1", "2"}
                  /\ Tail(body) \in {<<>>, NewTitle} ->
                     Ev("done", Tail(body), DigitValue(body[1]))
               [] tag \in {"n", "i", "u", "e", "x"} /\ body = <<>> ->
                     Ev(TagType(tag), <<>>, 1)
               [] OTHER -> SyntaxError

\* The wire text of an event (the server's json.dumps); used to build inputs.
Encode(e) ==
    CASE e.type = "content" -> <<"{", "c">> \o e.content \o <<"}">>
      [] e.type = "done" ->
            <<"{", "d", IF e.id = 1 THEN "1" ELSE "2">> \o e.content \o <<"}">>
      [] e.type = "annotation" -> <<"{", "n", "}">>
      [] e.type = "image_generated" -> <<"{", "i", "}">>
      [] e.type = "audio_generated" -> <<"{", "u", "}">>
      [] e.type = "error" -> <<"{", "e", "}">>
      [] OTHER -> <<"{", "x", "}">>

DataLine(e) == DataTag \o Encode(e)
Frame(e) == DataLine(e) \o <<NL, NL>>

\* ------------------------------------------------------- parseMarkdown
\* thinkStartRegex = /<think(?:\s[^>]*)?>/i at 1-based position i of text
\* (the alphabet of the model has no upper case letters): the length of the
\* match, 0 when there is none at i.
StartMatchLen(text, i) ==
    IF ~StartsWith(SubSeq(text, i, Len(text)), OpenMarker) THEN 0
    ELSE LET j == i + Len(OpenMarker)
         IN  IF j > Len(text) THEN 0
             ELSE IF text[j] = ">" THEN Len(OpenMarker) + 1
             ELSE IF text[j] \notin Whitespace THEN 0
             ELSE LET closes == {k \in (j + 1)..Len(text) : text[k] = ">"}
                  IN  IF closes = {} THEN 0
                      ELSE (CHOOSE k \in closes : \A m \in closes : k <= m) - i + 1

NoThinking(text) == [toggle |-> FALSE, thinking |-> <<>>, main |-> text]

\* The part of parseMarkdown that extracts the first <think> region into the
\* collapsible <details class="thinking-toggle"> block.  The result names
\* the two texts the HTML is built from: thinking (the block's content, the
\* block exists iff toggle) and main (the text handed to the markdown
\* formatting that follows, which this model does not expand).
ParseMarkdown(text) ==
    LET starts == {i \in 1..Len(text) : StartMatchLen(text, i) > 0}
    IN  IF starts = {} THEN NoThinking(text)
        ELSE LET startIndex == CHOOSE i \in starts : \A j \in starts : i <= j
                 afterStart == SubSeq(text, startIndex + StartMatchLen(text, startIndex), Len(text))
                 endIndex == IndexOf(afterStart, CloseMarker)
                 content == IF endIndex # 0 THEN SubSeq(afterStart, 1, endIndex - 1)
                            ELSE afterStart
                 mainText == IF endIndex # 0
                             THEN SubSeq(text, 1, startIndex - 1)
                                  \o SubSeq(afterStart, endIndex + Len(CloseMarker), Len(afterStart))
                             ELSE SubSeq(text, 1, startIndex - 1)
             IN  IF content # <<>>
                 THEN [toggle |-> TRUE, thinking |-> content, main |-> mainText]
                 ELSE NoThinking(text)


\* ------------------------------------------------------------------ state
VARIABLES
    isStreaming,          \* this.isStreaming
    abortController,      \* this.abortController: the turn that created it, 0 for null
    streamReader,         \* this.streamReader: the turn whose reader it is, 0 for null
    currentConversation,  \* this.currentConversation?.id, 0 for null
    typingIndicator,      \* the #typing-indicator element: "none", "typing", "thinking"
    container,            \* whether #chat-messages exists
    now,                  \* performance.now()
    started,              \* sendMessage invocations that passed the guards
    chunks,               \* chunks delivered so far (bounds the run)
    pc,                   \* per turn: where the invocation is suspended
    turn,                 \* per turn: the locals of sendMessage, its message element, its timers
    rest,                 \* the text the server has still to send (planned streams only)
    composer,             \* #chat-input's value, this.uploadedFiles.length, and whether
                          \* a call of sendMessage returned at its guards
    selecting             \* the selectConversation calls awaiting api.getConversation

vars == <<isStreaming, abortController, streamReader, currentConversation,
          typingIndicator, container, now, started, chunks, pc, turn, rest, composer,
          selecting>>

Turns == 1..MaxTurns

\* No selectConversation call is awaiting its answer: pending holds the
\* ids asked for, in the order of the calls, last the id of the most recent
\* call, failed whether a request has failed.
NoSelect == [pending |-> <<>>, last |-> 0, failed |-> FALSE]

\* The composer after a send (lines 161, 168-169) and at start.
EmptyComposer == [text |-> <<>>, files |-> 0, ignored |-> FALSE]

\* An invocation is suspended at an await ("fetch", "errbody", "read",
\* "reload") or its awaited promise was settled by cancelRequest and its
\* continuation is queued as a microtask ("fetchAborted", "errbodyAborted",
\* "readClosed", "readAborted").
MicrotaskPcs == {"fetchAborted", "errbodyAborted", "readClosed", "readAborted"}
AlivePcs == {"fetch", "errbody", "read", "reload"} \cup MicrotaskPcs
MicrotaskPending == \E t \in Turns : pc[t] \in MicrotaskPcs

\* The conversation id sent with the request (line 184, 0 for none), the
\* locals declared in sendMessage (lines 189-215), the assistant
\* message element (addMessageToUI) and what the turn left outside itself:
\* its setTimeout timers, its Toast.error calls and the titles it gave to
\* conversations.  renders, dispatched,
\* wire, ended, cancelledAt and cancelSteps record the history the
\* properties speak of.
NewTurn ==
    [sentWith |-> 0,
     fullResponse |-> <<>>, messageId |-> 0, conversationId |-> 0, annotationUrl |-> 0,
     buffer |-> <<>>, isThinking |-> FALSE, thinkingClosed |-> FALSE,
     renderPending |-> FALSE, lastRenderTime |-> 0, lastRenderedContentLength |-> 0,
     msgExists |-> FALSE, html |-> NoThinking(<<>>), open |-> FALSE,
     annotations |-> 0, images |-> 0, audios |-> 0,
     timers |-> <<>>, toasts |-> <<>>, titles |-> <<>>,
     renders |-> <<>>, dispatched |-> <<>>, wire |-> <<>>,
     ended |-> "none", cancelledAt |-> "none", cancelSteps |-> <<>>]

Init ==
    /\ isStreaming = FALSE
    /\ abortController = 0
    /\ streamReader = 0
    /\ currentConversation = 0
    /\ typingIndicator = "none"
    /\ container = FALSE
    /\ now = 0
    /\ started = 0
    /\ chunks = 0
    /\ pc = [t \in Turns |-> "idle"]
    /\ turn = [t \in Turns |-> NewTurn]
    /\ rest = <<>>
    /\ composer = EmptyComposer
    /\ selecting = NoSelect

\* ------------------------------------------------------------- rendering
\* A context c is [t |-> the turn's record, typing |-> the typing indicator]:
\* what the synchronous code of one turn reads and writes.

\* A replacement of the content of the whole message element: the grid of
\* generated images and the audio container go with it.
SetInnerHTML_WholeMessage(c, text, kind) ==
    [c EXCEPT !.t.html = ParseMarkdown(text),
              !.t.open = FALSE,
              !.t.annotations = 0,
              !.t.images = 0,
              !.t.audios = 0,
              !.t.renders = Append(@, [at |-> now, kind |-> kind])]

\* contentEl.innerHTML = utils.parseMarkdown(text): the children of
\* .message-text are replaced, so a <details> made by it starts closed and
\* an annotation block appended to contentEl before is gone.
SetInnerHTML(c, text, kind) ==
    [c EXCEPT !.t.html = ParseMarkdown(text),
              !.t.open = FALSE,
              !.t.annotations = 0,
              !.t.renders = Append(@, [at |-> now, kind |-> kind])]

\* The render closure of scheduleRender (lines 226-246).
Render(c, kind) ==
    IF Len(c.t.fullResponse) # c.t.lastRenderedContentLength
    THEN LET wasOpen == c.t.html.toggle /\ c.t.open
             r == SetInnerHTML(c, c.t.fullResponse, kind)
         IN  [r EXCEPT !.t.open = r.t.html.toggle /\ wasOpen,
                       !.t.lastRenderTime = now,
                       !.t.lastRenderedContentLength = Len(c.t.fullResponse),
                       !.t.renderPending = FALSE]
    ELSE [c EXCEPT !.t.renderPending = FALSE]

\* scheduleRender without its throttle: every growth is rendered at once.
ScheduleRender_NoThrottle(c) ==
    IF Len(c.t.fullResponse) = c.t.lastRenderedContentLength THEN c
    ELSE Render(c, "immediate")

\* scheduleRender without the test of renderPending: every content event
\* that is not rendered at once sets a timer.
ScheduleRender_NoPendingCheck(c) ==
    IF Len(c.t.fullResponse) = c.t.lastRenderedContentLength THEN c
    ELSE LET timeSinceLastRender == now - c.t.lastRenderTime
         IN  IF timeSinceLastRender >= RENDER_THROTTLE_MS
             THEN Render(c, "immediate")
             ELSE [c EXCEPT !.t.renderPending = TRUE,
                            !.t.timers = Append(@, now + (RENDER_THROTTLE_MS - timeSinceLastRender))]

\* scheduleRender with a deferred render that waits a whole throttle period.
ScheduleRender_FullDelay(c) ==
    IF Len(c.t.fullResponse) = c.t.lastRenderedContentLength THEN c
    ELSE IF c.t.renderPending THEN c
    ELSE LET timeSinceLastRender == now - c.t.lastRenderTime
         IN  IF timeSinceLastRender >= RENDER_THROTTLE_MS
             THEN Render(c, "immediate")
             ELSE [c EXCEPT !.t.renderPending = TRUE,
                            !.t.timers = Append(@, now + RENDER_THROTTLE_MS)]

\* scheduleRender (lines 218-256).
ScheduleRender(c) ==
    IF Len(c.t.fullResponse) = c.t.lastRenderedContentLength THEN c
    ELSE IF c.t.renderPending THEN c
    ELSE LET timeSinceLastRender == now - c.t.lastRenderTime
         IN  IF timeSinceLastRender >= RENDER_THROTTLE_MS
             THEN Render(c, "immediate")
             ELSE [c EXCEPT !.t.renderPending = TRUE,
                            !.t.timers = Append(@, now + (RENDER_THROTTLE_MS - timeSinceLastRender))]

\* showTypingIndicator / hideTypingIndicator (lines 516-565).
ShowTyping(mode) == IF container THEN mode ELSE "none"

\* ------------------------------------------------------------- dispatch
\* The thinking detection of a content event (lines 281-292).
DetectThinking(c) ==
    IF c.t.thinkingClosed THEN c
    ELSE LET opens == Includes(c.t.fullResponse, OpenMarker) /\ ~c.t.isThinking
             c1 == IF opens
                   THEN [c EXCEPT !.t.isThinking = TRUE, !.typing = ShowTyping("thinking")]
                   ELSE c
         IN  IF Includes(c.t.fullResponse, CloseMarker)
             THEN [c1 EXCEPT !.t.isThinking = FALSE, !.t.thinkingClosed = TRUE,
                             !.typing = "none"]
             ELSE c1

\* this.currentConversationId, read by the done branch (lines 341-342): no
\* statement of the program assigns the property, so it is undefined, 0 here.
currentConversationId == 0

\* updateConversationTitle (lines 567-594): the entry of the conversation in
\* this.conversations, its sidebar item and, if it is the current
\* conversation, the chat header take the new title.
UpdateConversationTitle(c, conversationId, newTitle) ==
    [c EXCEPT !.t.titles = Append(@, [id |-> conversationId, title |-> newTitle])]

\* The if-chain with an error branch that shows nothing.
Handle_ErrorSilent(c, data) ==
    LET d == [c EXCEPT !.t.dispatched = Append(@, data)]
    IN  CASE data.type = "content" ->
               ScheduleRender(DetectThinking([d EXCEPT !.t.fullResponse = @ \o data.content]))
          [] data.type = "annotation" -> [d EXCEPT !.t.annotationUrl = data.id]
          [] data.type = "image_generated" -> [d EXCEPT !.t.images = @ + 1]
          [] data.type = "audio_generated" -> [d EXCEPT !.t.audios = @ + 1]
          [] data.type = "done" ->
               LET r == [d EXCEPT !.t.messageId = data.id, !.t.conversationId = data.id]
               IN  IF data.content # <<>> /\ currentConversationId # 0
                   THEN UpdateConversationTitle(r, currentConversationId, data.content)
                   ELSE r
          [] OTHER -> d

\* The if-chain with a done branch that records nothing.
Handle_DoneIgnored(c, data) ==
    LET d == [c EXCEPT !.t.dispatched = Append(@, data)]
    IN  CASE data.type = "content" ->
               ScheduleRender(DetectThinking([d EXCEPT !.t.fullResponse = @ \o data.content]))
          [] data.type = "annotation" -> [d EXCEPT !.t.annotationUrl = data.id]
          [] data.type = "image_generated" -> [d EXCEPT !.t.images = @ + 1]
          [] data.type = "audio_generated" -> [d EXCEPT !.t.audios = @ + 1]
          [] data.type = "error" -> [d EXCEPT !.t.toasts = Append(@, "event")]
          [] OTHER -> d

\* The if-chain on data.type inside the read loop (lines 278-346).
Handle(c, data) ==
    LET d == [c EXCEPT !.t.dispatched = Append(@, data)]
    IN  CASE data.type = "content" ->
               ScheduleRender(DetectThinking([d EXCEPT !.t.fullResponse = @ \o data.content]))
          [] data.type = "annotation" -> [d EXCEPT !.t.annotationUrl = data.id]
          [] data.type = "image_generated" -> [d EXCEPT !.t.images = @ + 1]
          [] data.type = "audio_generated" -> [d EXCEPT !.t.audios = @ + 1]
          [] data.type = "done" ->
               LET r == [d EXCEPT !.t.messageId = data.id, !.t.conversationId = data.id]
               IN  IF data.content # <<>> /\ currentConversationId # 0
                   THEN UpdateConversationTitle(r, currentConversationId, data.content)
                   ELSE r
          [] data.type = "error" -> [d EXCEPT !.t.toasts = Append(@, "event")]
          [] OTHER -> d

\* A line handler whose SyntaxError escapes to the catch block of the turn.
DispatchLine_Unguarded(c, line) ==
    IF ~StartsWith(line, DataTag) THEN c
    ELSE LET data == JSONParse(Slice(line, Len(DataTag)))
         IN  IF data = SyntaxError
             THEN [c EXCEPT !.t.toasts = Append(@, "handler")]
             ELSE Handle(c, data)

\* One line of a frame (lines 274-350): a data line is parsed and handled,
\* a SyntaxError is caught and logged, any other line is ignored.
DispatchLine(c, line) ==
    IF ~StartsWith(line, DataTag) THEN c
    ELSE LET data == JSONParse(Slice(line, Len(DataTag)))
         IN  IF data = SyntaxError THEN c ELSE Handle(c, data)

RECURSIVE DispatchLines(_, _)
DispatchLines(c, lines) ==
    IF lines = <<>> THEN c
    ELSE DispatchLines(DispatchLine(c, Head(lines)), Tail(lines))

RECURSIVE DispatchEvents(_, _)
DispatchEvents(c, events) ==
    IF events = <<>> THEN c
    ELSE DispatchEvents(DispatchLines(c, Split(Head(events), <<NL>>)), Tail(events))

\* The partial frame dropped instead of kept.
KeepLast_Dropped(parts) == <<>>

\* buffer = events.pop() || '' (line 269).
KeepLast(parts) == parts[Len(parts)]

\* One iteration of the read loop after read() gave a chunk (lines 262-352).
\* The chunk is text: TextDecoder with stream: true gives the same text
\* however the bytes were cut.
ProcessChunk(c, chunk) ==
    LET parts == Split(c.t.buffer \o chunk, <<NL, NL>>)
        events == SubSeq(parts, 1, Len(parts) - 1)
        c1 == [c EXCEPT !.t.buffer = KeepLast(parts), !.t.wire = @ \o chunk]
    IN  DispatchEvents(c1, events)

\* A residual line whose content replaces the response text.
ResidualLine_Overwrites(c, line) ==
    IF ~StartsWith(line, DataTag) THEN c
    ELSE LET data == JSONParse(Slice(line, Len(DataTag)))
         IN  IF data = SyntaxError THEN c
             ELSE LET d == [c EXCEPT !.t.dispatched = Append(@, data)]
                  IN  CASE data.type = "content" ->
                             SetInnerHTML([d EXCEPT !.t.fullResponse = data.content],
                                          data.content, "residual")
                        [] data.type = "done" ->
                             [d EXCEPT !.t.messageId = data.id, !.t.conversationId = data.id]
                        [] OTHER -> c

\* One line of the residual buffer (lines 383-396): content and done only.
ResidualLine(c, line) ==
    IF ~StartsWith(line, DataTag) THEN c
    ELSE LET data == JSONParse(Slice(line, Len(DataTag)))
         IN  IF data = SyntaxError THEN c
             ELSE LET d == [c EXCEPT !.t.dispatched = Append(@, data)]
                  IN  CASE data.type = "content" ->
                             SetInnerHTML([d EXCEPT !.t.fullResponse = @ \o data.content],
                                          d.t.fullResponse \o data.content, "residual")
                        [] data.type = "done" ->
                             [d EXCEPT !.t.messageId = data.id, !.t.conversationId = data.id]
                        [] OTHER -> c

RECURSIVE ResidualLines(_, _)
ResidualLines(c, lines) ==
    IF lines = <<>> THEN c
    ELSE ResidualLines(ResidualLine(c, Head(lines)), Tail(lines))

\* The final render left out.
FinalRender_Skipped(c) == c

\* The final render (line 356).
FinalRender(c) == SetInnerHTML(c, c.t.fullResponse, "final")

\* The annotation block appended to contentEl (lines 359-372).
AppendAnnotation(c) ==
    IF c.t.annotationUrl # 0 THEN [c EXCEPT !.t.annotations = @ + 1] ELSE c

\* The residual buffer (lines 380-398).
HandleResidual(c) ==
    IF TrimNonEmpty(c.t.buffer) THEN ResidualLines(c, Split(c.t.buffer, <<NL>>)) ELSE c

\* From the break of the read loop to the conversation update (lines 355-398).
AfterLoop(c) ==
    HandleResidual([AppendAnnotation(FinalRender(c)) EXCEPT !.typing = "none"])

\* A catch block that swallows every error.
CatchError_Silent(c, name) == c

\* A catch block that also clears the timers of the turn.
CatchError_ClearsTimers(c, name) ==
    IF name # "AbortError"
    THEN [c EXCEPT !.typing = "none", !.t.toasts = Append(@, "handler"),
                   !.t.timers = <<>>]
    ELSE c

\* The catch block (lines 413-418): name is the error's name.
CatchError(c, name) ==
    IF name # "AbortError"
    THEN [c EXCEPT !.typing = "none", !.t.toasts = Append(@, "handler")]
    ELSE c


\* ---------------------------------------------------------------- inputs
FragA == <<"a">>
FragT == <<"<", "t", "h", "i", "n", "k", ">", "t">>

\* What one read() may deliver under Spec: a whole frame (a content frame
\* with or without a <think> region, an annotation, a done), or a data line
\* whose blank line has not arrived.
SpecChunks ==
    {Frame(Ev("content", FragA, 0)), Frame(Ev("content", FragT, 0)),
     Frame(Ev("annotation", <<>>, 1)), Frame(Ev("done", <<>>, 1)),
     DataLine(Ev("content", FragA, 0))}

\* What one read() may deliver under SpecTurn: the same and an error frame.
TurnChunks == SpecChunks \cup {Frame(Ev("error", <<>>, 1))}

\* The pieces the planned streams of SpecLoop are made of: whole frames of
\* every kind, a frame whose payload is cut short (not JSON), alone and
\* after a valid data line of the same frame, a frame with a line that is
\* no data line, a data line ended by one line terminator, and data lines
\* with no terminator at all (a content event, a done event).
Pieces ==
    {Frame(Ev("content", FragA, 0)), Frame(Ev("content", <<"b">>, 0)),
     Frame(Ev("annotation", <<>>, 1)), Frame(Ev("done", <<>>, 2)),
     Frame(Ev("error", <<>>, 1)), Frame(Ev("image_generated", <<>>, 1)),
     DataTag \o <<"{", "c", "a", NL, NL>>,
     DataLine(Ev("content", <<"b">>, 0)) \o <<NL>> \o DataTag \o <<"{", "c", "a", NL, NL>>,
     <<"i", "d", NL>> \o Frame(Ev("content", FragA, 0)),
     DataLine(Ev("content", <<"b">>, 0)) \o <<NL>>,
     DataLine(Ev("content", FragA, 0)),
     DataLine(Ev("done", <<>>, 1))}

RECURSIVE StreamsOf(_)
StreamsOf(n) ==
    IF n = 0 THEN {<<>>}
    ELSE LET shorter == StreamsOf(n - 1)
         IN  shorter \cup {s \o p : s \in shorter, p \in Pieces}

Streams == StreamsOf(MaxFrames)

\* How far performance.now() moves between two tasks.
TickSteps == {25}

\* --------------------------------------------------------------- actions
Ctx(t) == [t |-> turn[t], typing |-> typingIndicator]

Ended(r, why) == [r EXCEPT !.ended = IF @ = "none" THEN why ELSE @]

\* A finally block that leaves the reader in place.
Finally_KeepsReader(t, c, why) ==
    /\ isStreaming' = FALSE
    /\ abortController' = 0
    /\ streamReader' = streamReader
    /\ pc' = [pc EXCEPT ![t] = "done"]
    /\ turn' = [turn EXCEPT ![t] = Ended(c.t, why)]
    /\ typingIndicator' = c.typing

\* The finally block (lines 419-424).
Finally(t, c, why) ==
    /\ isStreaming' = FALSE
    /\ abortController' = 0
    /\ streamReader' = 0
    /\ pc' = [pc EXCEPT ![t] = "done"]
    /\ turn' = [turn EXCEPT ![t] = Ended(c.t, why)]
    /\ typingIndicator' = c.typing

\* The conversation update after the loop (lines 400-406), up to its await
\* of loadConversations, or else straight into the finally block.
Complete(t, c, why) ==
    IF c.t.conversationId # 0 /\ currentConversation = 0
    THEN /\ pc' = [pc EXCEPT ![t] = "reload"]
         /\ turn' = [turn EXCEPT ![t] = Ended(c.t, why)]
         /\ typingIndicator' = c.typing
         /\ UNCHANGED <<isStreaming, abortController, streamReader>>
    ELSE Finally(t, c, why)

\* sendMessage, called with the given input text and number of uploaded
\* files, from its guards to the await of api.sendMessageStream (lines
\* 90-184): renderChatView makes the message container if it is missing,
\* the input and the uploaded files are cleared, the user message is added.
SendMessageWith(text, files) ==
    /\ ~MicrotaskPending
    /\ TrimNonEmpty(text) \/ files > 0
    /\ ~isStreaming
    /\ started < MaxTurns
    /\ started' = started + 1
    /\ container' = TRUE
    /\ typingIndicator' = "typing"
    /\ isStreaming' = TRUE
    /\ abortController' = started + 1
    /\ pc' = [pc EXCEPT ![started + 1] = "fetch"]
    /\ turn' = [turn EXCEPT ![started + 1].sentWith = currentConversation]
    /\ composer' = [composer EXCEPT !.text = <<>>, !.files = 0]
    /\ UNCHANGED <<streamReader, currentConversation, now, chunks, rest, selecting>>

\* The user types a message and sends it at once.
SendMessage == SendMessageWith(FragA, 0)

\* A return at the guards that first empties the input.
ReturnAtGuard_ClearsInput ==
    /\ composer' = [composer EXCEPT !.text = <<>>, !.ignored = TRUE]
    /\ UNCHANGED <<isStreaming, abortController, streamReader, currentConversation,
                   typingIndicator, container, now, started, chunks, pc, turn, rest, selecting>>

\* sendMessage returns at one of its guards (lines 94-95): nothing was done
\* before them.
ReturnAtGuard ==
    /\ composer' = [composer EXCEPT !.ignored = TRUE]
    /\ UNCHANGED <<isStreaming, abortController, streamReader, currentConversation,
                   typingIndicator, container, now, started, chunks, pc, turn, rest, selecting>>

\* sendMessage called (Enter key, send button) on the composer as it is.
SendMessageCall ==
    /\ ~MicrotaskPending
    /\ IF (~TrimNonEmpty(composer.text) /\ composer.files = 0) \/ isStreaming
       THEN ReturnAtGuard
       ELSE SendMessageWith(composer.text, composer.files)

\* What the user may have in the input: nothing, white space, a message.
Texts == {<<>>, <<" ">>, FragA}

\* The user edits the input or adds or removes an uploaded file.
TypeInput ==
    /\ ~MicrotaskPending
    /\ \E text \in Texts, files \in 0..1 :
         /\ <<text, files>> # <<composer.text, composer.files>>
         /\ composer' = [composer EXCEPT !.text = text, !.files = files]
    /\ UNCHANGED <<isStreaming, abortController, streamReader, currentConversation,
                   typingIndicator, container, now, started, chunks, pc, turn, rest, selecting>>

\* The placeholder used without the test of lines 196-199: with no
\* container addMessageToUI returns null and messageEl.querySelector throws.
FetchResolves_NoNullCheck(t) ==
    /\ ~MicrotaskPending
    /\ pc[t] = "fetch"
    /\ LET c == [t |-> [turn[t] EXCEPT !.conversationId = currentConversation],
                 typing |-> typingIndicator]
       IN  IF ~container
           THEN /\ Finally(t, CatchError(c, "TypeError"), "nocontainer")
           ELSE /\ streamReader' = t
                /\ pc' = [pc EXCEPT ![t] = "read"]
                /\ turn' = [turn EXCEPT ![t] = [c.t EXCEPT !.msgExists = TRUE]]
                /\ typingIndicator' = "none"
                /\ UNCHANGED <<isStreaming, abortController>>
    /\ UNCHANGED <<currentConversation, container, now, started, chunks, rest,
                   composer, selecting>>

\* fetch resolves with a 2xx response: sendMessageStream returns the body,
\* sendMessage takes the reader, makes the placeholder and awaits the first
\* read (lines 185-259).
FetchResolves(t) ==
    /\ ~MicrotaskPending
    /\ pc[t] = "fetch"
    /\ LET c == [t |-> [turn[t] EXCEPT !.conversationId = currentConversation],
                 typing |-> "none"]
       IN  IF ~container
           THEN /\ Finally(t, c, "nocontainer")
           ELSE /\ streamReader' = t
                /\ pc' = [pc EXCEPT ![t] = "read"]
                /\ turn' = [turn EXCEPT ![t] = [c.t EXCEPT !.msgExists = TRUE]]
                /\ typingIndicator' = c.typing
                /\ UNCHANGED <<isStreaming, abortController>>
    /\ UNCHANGED <<currentConversation, container, now, started, chunks, rest,
                   composer, selecting>>

\* fetch resolves with a non-2xx response: sendMessageStream awaits
\* response.json() (part_001 lines 201-204).
FetchNotOk(t) ==
    /\ ~MicrotaskPending
    /\ pc[t] = "fetch"
    /\ pc' = [pc EXCEPT ![t] = "errbody"]
    /\ UNCHANGED <<isStreaming, abortController, streamReader, currentConversation,
                   typingIndicator, container, now, started, chunks, turn, rest,
                   composer, selecting>>

\* A promise the turn awaits is rejected by the transport (fetch fails, the
\* body of the error response was read and Error is thrown, a read fails):
\* the catch block, then the finally block.
TransportFault(t) ==
    /\ ~MicrotaskPending
    /\ pc[t] \in {"fetch", "errbody", "read"}
    /\ Finally(t, CatchError(Ctx(t), IF pc[t] = "errbody" THEN "Error" ELSE "TypeError"), "fail")
    /\ UNCHANGED <<currentConversation, container, now, started, chunks, rest,
                   composer, selecting>>

\* read() gives a chunk: one iteration of the loop.
ChunkArrives(t, from) ==
    /\ ~MicrotaskPending
    /\ pc[t] = "read"
    /\ chunks < MaxChunks
    /\ \E chunk \in from :
         LET c == ProcessChunk(Ctx(t), chunk)
         IN  /\ turn' = [turn EXCEPT ![t] = c.t]
             /\ typingIndicator' = c.typing
    /\ chunks' = chunks + 1
    /\ UNCHANGED <<isStreaming, abortController, streamReader, currentConversation,
                   container, now, started, pc, rest,
                   composer, selecting>>

\* read() gives done: the transport closed the stream.
EndOfStream(t) ==
    /\ ~MicrotaskPending
    /\ pc[t] = "read"
    /\ Complete(t, AfterLoop(Ctx(t)), "eos")
    /\ UNCHANGED <<currentConversation, container, now, started, chunks, rest,
                   composer, selecting>>

\* loadConversations settles (it catches its own failures): lines 404-405,
\* then the finally block.
ReloadDone(t) ==
    /\ ~MicrotaskPending
    /\ pc[t] = "reload"
    /\ currentConversation' = turn[t].conversationId
    /\ Finally(t, Ctx(t), "eos")
    /\ UNCHANGED <<container, now, started, chunks, rest,
                   composer, selecting>>

\* What cancelRequest does to the promise turn t awaits: reader.cancel()
\* closes the stream, so a pending read resolves with done; abort() rejects
\* a pending fetch, a pending response.json() and a pending read of a
\* stream that was not closed first.
PcAfterCancel(t) ==
    IF t = streamReader /\ pc[t] = "read" THEN "readClosed"
    ELSE IF t # abortController THEN pc[t]
    ELSE CASE pc[t] = "fetch" -> "fetchAborted"
           [] pc[t] = "errbody" -> "errbodyAborted"
           [] pc[t] = "read" -> "readAborted"
           [] OTHER -> pc[t]

\* cancelRequest with the request aborted before the reader is cancelled.
CancelSteps_AbortFirst ==
    (IF abortController # 0 THEN <<"abort">> ELSE <<>>)
    \o (IF streamReader # 0 THEN <<"cancelReader">> ELSE <<>>)
    \o <<"clearFlag", "hideTyping">>

\* The statements of cancelRequest in the order it executes them (lines
\* 429-440): reader.cancel(), abort(), isStreaming = false,
\* hideTypingIndicator().
CancelSteps ==
    (IF streamReader # 0 THEN <<"cancelReader">> ELSE <<>>)
    \o (IF abortController # 0 THEN <<"abort">> ELSE <<>>)
    \o <<"clearFlag", "hideTyping">>

\* cancelRequest (lines 427-442); its button is shown while isStreaming
\* (lines 614-616).
CancelRequest ==
    /\ ~MicrotaskPending
    /\ isStreaming
    /\ pc' = [t \in Turns |-> PcAfterCancel(t)]
    /\ turn' = [t \in Turns |->
                  IF t \in {streamReader, abortController} /\ turn[t].cancelledAt = "none"
                  THEN [turn[t] EXCEPT !.cancelledAt = pc[t], !.cancelSteps = CancelSteps]
                  ELSE turn[t]]
    /\ streamReader' = 0
    /\ abortController' = 0
    /\ isStreaming' = FALSE
    /\ typingIndicator' = "none"
    /\ UNCHANGED <<currentConversation, container, now, started, chunks, rest,
                   composer, selecting>>

\* The microtask after cancelRequest closed the stream: read() resolved
\* with done, the loop breaks and the code after the loop runs.
ResumeReadClosed(t) ==
    /\ pc[t] = "readClosed"
    /\ Complete(t, AfterLoop(Ctx(t)), "cancel")
    /\ UNCHANGED <<currentConversation, container, now, started, chunks, rest,
                   composer, selecting>>

\* The microtask after abort() rejected the awaited promise: fetch and read
\* reject with an AbortError; response.json()'s rejection is caught by
\* sendMessageStream, which throws Error('Request failed').
ResumeAborted(t) ==
    /\ pc[t] \in {"fetchAborted", "errbodyAborted", "readAborted"}
    /\ Finally(t, CatchError(Ctx(t), IF pc[t] = "errbodyAborted" THEN "Error" ELSE "AbortError"),
               "cancel")
    /\ UNCHANGED <<currentConversation, container, now, started, chunks, rest,
                   composer, selecting>>

\* A setTimeout(render, ...) of the turn is due (line 254).
TimerFires(t) ==
    /\ ~MicrotaskPending
    /\ \E i \in 1..Len(turn[t].timers) :
         /\ turn[t].timers[i] <= now
         /\ LET c0 == [Ctx(t) EXCEPT !.t.timers =
                          SubSeq(@, 1, i - 1) \o SubSeq(@, i + 1, Len(@))]
                c == Render(c0, "deferred")
            IN  /\ turn' = [turn EXCEPT ![t] = c.t]
                /\ typingIndicator' = c.typing
    /\ UNCHANGED <<isStreaming, abortController, streamReader, currentConversation,
                   container, now, started, chunks, pc, rest,
                   composer, selecting>>

\* The user opens or closes the <details class="thinking-toggle"> of a message.
ToggleThinking(t) ==
    /\ ~MicrotaskPending
    /\ turn[t].msgExists
    /\ turn[t].html.toggle
    /\ turn' = [turn EXCEPT ![t].open = ~@]
    /\ UNCHANGED <<isStreaming, abortController, streamReader, currentConversation,
                   typingIndicator, container, now, started, chunks, pc, rest,
                   composer, selecting>>

\* createNewChat (lines 67-71): the uploaded files are dropped and
\* renderChat shows the welcome screen, which has no #chat-messages and a
\* new, empty input; the elements of the turn are detached, not changed.
CreateNewChat ==
    /\ ~MicrotaskPending
    /\ currentConversation' = 0
    /\ container' = FALSE
    /\ typingIndicator' = "none"
    /\ composer' = [composer EXCEPT !.text = <<>>, !.files = 0]
    /\ UNCHANGED <<isStreaming, abortController, streamReader, now, started, chunks,
                   pc, turn, rest, selecting>>

\* The conversations the sidebar lists.
ConversationIds == {1, 2}

\* selectConversation (lines 52-65) once api.getConversation has answered:
\* renderChat shows the messages of the conversation in a new
\* #chat-messages, with a new, empty input.
SelectConversation ==
    /\ ~MicrotaskPending
    /\ \E id \in ConversationIds : currentConversation' = id
    /\ container' = TRUE
    /\ typingIndicator' = "none"
    /\ composer' = [composer EXCEPT !.text = <<>>]
    /\ UNCHANGED <<isStreaming, abortController, streamReader, now, started, chunks,
                   pc, turn, rest, selecting>>

\* selectConversation is called (lines 52-59): with no id the welcome
\* screen is shown at once, with an id api.getConversation is awaited.
SelectCall ==
    /\ ~MicrotaskPending
    /\ \E id \in ConversationIds \cup {0} :
         IF id = 0
         THEN /\ currentConversation' = 0
              /\ container' = FALSE
              /\ typingIndicator' = "none"
              /\ composer' = [composer EXCEPT !.text = <<>>]
              /\ selecting' = [selecting EXCEPT !.last = 0]
         ELSE /\ Len(selecting.pending) < MaxSelects
              /\ selecting' = [selecting EXCEPT !.pending = Append(@, id), !.last = id]
              /\ UNCHANGED <<currentConversation, container, typingIndicator, composer>>
    /\ UNCHANGED <<isStreaming, abortController, streamReader, now, started, chunks,
                   pc, turn, rest>>

\* api.getConversation answers one of the calls in flight, whichever the
\* server answers first: the call resumes, assigns currentConversation and
\* renders the chat (lines 60-61).
SelectResponse ==
    /\ ~MicrotaskPending
    /\ \E i \in DOMAIN selecting.pending :
         /\ currentConversation' = selecting.pending[i]
         /\ selecting' = [selecting EXCEPT !.pending =
                             SubSeq(@, 1, i - 1) \o SubSeq(@, i + 1, Len(@))]
    /\ container' = TRUE
    /\ typingIndicator' = "none"
    /\ composer' = [composer EXCEPT !.text = <<>>]
    /\ UNCHANGED <<isStreaming, abortController, streamReader, now, started, chunks,
                   pc, turn, rest>>

\* api.getConversation fails for one of the calls in flight: the catch
\* block shows an error and nothing else changes (lines 62-64).
SelectFails ==
    /\ ~MicrotaskPending
    /\ \E i \in DOMAIN selecting.pending :
         selecting' = [selecting EXCEPT !.pending =
                          SubSeq(@, 1, i - 1) \o SubSeq(@, i + 1, Len(@)),
                                        !.failed = TRUE]
    /\ UNCHANGED <<isStreaming, abortController, streamReader, currentConversation,
                   typingIndicator, container, now, started, chunks, pc, turn, rest,
                   composer>>

\* deleteConversation (lines 73-88) once the conversation was deleted and
\* the list loaded again: the current conversation is dropped if it is the
\* deleted one, and renderChat shows the chat view again, or the welcome
\* screen.
DeleteConversation ==
    /\ ~MicrotaskPending
    /\ \E id \in ConversationIds :
         currentConversation' = IF currentConversation = id THEN 0 ELSE currentConversation
    /\ container' = (currentConversation' # 0)
    /\ typingIndicator' = "none"
    /\ composer' = [composer EXCEPT !.text = <<>>]
    /\ UNCHANGED <<isStreaming, abortController, streamReader, now, started, chunks,
                   pc, turn, rest, selecting>>

\* Time passes.
Tick ==
    /\ ~MicrotaskPending
    /\ \E d \in TickSteps :
         /\ now + d <= MaxNow
         /\ now' = now + d
    /\ UNCHANGED <<isStreaming, abortController, streamReader, currentConversation,
                   typingIndicator, container, started, chunks, pc, turn, rest,
                   composer, selecting>>

Next ==
    \/ SendMessage
    \/ CancelRequest
    \/ Tick
    \/ \E t \in Turns :
         \/ FetchResolves(t)
         \/ FetchNotOk(t)
         \/ TransportFault(t)
         \/ ChunkArrives(t, SpecChunks)
         \/ EndOfStream(t)
         \/ ReloadDone(t)
         \/ ResumeReadClosed(t)
         \/ ResumeAborted(t)
         \/ TimerFires(t)
         \/ ToggleThinking(t)

Spec == Init /\ [][Next]_vars

\* One turn: the first sendMessage and everything that can happen to it.
SendFirst == started = 0 /\ SendMessage

NextTurn ==
    \/ SendFirst
    \/ CancelRequest
    \/ Tick
    \/ \E t \in Turns :
         \/ FetchResolves(t)
         \/ FetchNotOk(t)
         \/ TransportFault(t)
         \/ ChunkArrives(t, TurnChunks)
         \/ EndOfStream(t)
         \/ ReloadDone(t)
         \/ ResumeReadClosed(t)
         \/ ResumeAborted(t)
         \/ TimerFires(t)
         \/ ToggleThinking(t)

SpecTurn == Init /\ [][NextTurn]_vars

\* One turn whose response is a planned stream, delivered in chunks cut at
\* arbitrary places.
InitLoop ==
    /\ isStreaming = FALSE
    /\ abortController = 0
    /\ streamReader = 0
    /\ currentConversation = 0
    /\ typingIndicator = "none"
    /\ container = FALSE
    /\ now = 0
    /\ started = 0
    /\ chunks = 0
    /\ pc = [t \in Turns |-> "idle"]
    /\ turn = [t \in Turns |-> NewTurn]
    /\ rest \in Streams
    /\ composer = EmptyComposer
    /\ selecting = NoSelect

\* read() gives the next n characters of the planned stream.
StreamChunk(t) ==
    /\ pc[t] = "read"
    /\ \E n \in 1..Len(rest) :
         LET c == ProcessChunk(Ctx(t), SubSeq(rest, 1, n))
         IN  /\ turn' = [turn EXCEPT ![t] = c.t]
             /\ typingIndicator' = c.typing
             /\ rest' = SubSeq(rest, n + 1, Len(rest))
    /\ UNCHANGED <<isStreaming, abortController, streamReader, currentConversation,
                   container, now, started, chunks, pc,
                   composer, selecting>>

\* read() gives done once the whole planned stream was delivered.
StreamEnd(t) ==
    /\ rest = <<>>
    /\ EndOfStream(t)

NextLoop ==
    \/ SendFirst
    \/ \E t \in Turns :
         \/ FetchResolves(t)
         \/ StreamChunk(t)
         \/ StreamEnd(t)
         \/ ReloadDone(t)

SpecLoop == InitLoop /\ [][NextLoop]_vars

\* A closing marker.
FragC == CloseMarker

\* What one read() may deliver under SpecThink: content with an opening
\* marker, with a closing marker, with neither.
ThinkChunks ==
    {Frame(Ev("content", FragT, 0)), Frame(Ev("content", FragC, 0)),
     Frame(Ev("content", FragA, 0))}

\* What one read() may deliver under SpecArt: content, a generated image, a
\* generated audio, and an audio event whose blank line has not arrived.
ArtChunks ==
    {Frame(Ev("content", FragA, 0)), Frame(Ev("image_generated", <<>>, 1)),
     Frame(Ev("audio_generated", <<>>, 1)), DataLine(Ev("audio_generated", <<>>, 1))}

\* What the texts of SpecMd are made of: an opening tag, plain and with an
\* attribute, a closing tag, a whole thinking region, a letter.
MdTokens ==
    {OpenMarker \o <<">">>, OpenMarker \o <<" ", "x", ">">>, CloseMarker,
     OpenMarker \o <<">", "t">> \o CloseMarker, FragA}

RECURSIVE MdTextsOf(_)
MdTextsOf(n) ==
    IF n = 0 THEN {<<>>}
    ELSE LET shorter == MdTextsOf(n - 1)
         IN  shorter \cup {s \o k : s \in shorter, k \in MdTokens}

MdTexts == MdTextsOf(MaxTokens)

\* What one read() may deliver under SpecSend.
SendChunks == {Frame(Ev("content", FragA, 0))}

\* What one read() may deliver under SpecLife.
LifeChunks == {Frame(Ev("content", FragA, 0)), Frame(Ev("done", <<>>, 1))}

\* The life of one turn, from the send to its finally block, while the user
\* may also cancel or leave the chat view; no time passes.  The promise a
\* turn awaits is settled in the end: the request is answered or fails, the
\* stream closes or fails, the conversation list is loaded or not, and a
\* queued continuation runs.
NextLife ==
    \/ SendFirst
    \/ CancelRequest
    \/ CreateNewChat
    \/ SelectConversation
    \/ \E t \in Turns :
         \/ FetchResolves(t)
         \/ FetchNotOk(t)
         \/ TransportFault(t)
         \/ ChunkArrives(t, LifeChunks)
         \/ EndOfStream(t)
         \/ ReloadDone(t)
         \/ ResumeReadClosed(t)
         \/ ResumeAborted(t)

\* The composer: the user edits the input and calls sendMessage whatever
\* the state of the input and of the turn in flight.
NextSend ==
    \/ TypeInput
    \/ SendMessageCall
    \/ CancelRequest
    \/ \E t \in Turns :
         \/ FetchResolves(t)
         \/ ChunkArrives(t, SendChunks)
         \/ EndOfStream(t)
         \/ ResumeReadClosed(t)
         \/ ResumeAborted(t)

SpecSend == Init /\ [][NextSend]_vars

\* One turn whose content carries thinking markers.
NextThink ==
    \/ SendFirst
    \/ CancelRequest
    \/ Tick
    \/ \E t \in Turns :
         \/ FetchResolves(t)
         \/ ChunkArrives(t, ThinkChunks)
         \/ EndOfStream(t)
         \/ ResumeReadClosed(t)
         \/ ResumeAborted(t)
         \/ TimerFires(t)
         \/ ToggleThinking(t)

SpecThink == Init /\ [][NextThink]_vars

\* One turn whose stream carries generated images and audio.
NextArt ==
    \/ SendFirst
    \/ Tick
    \/ \E t \in Turns :
         \/ FetchResolves(t)
         \/ ChunkArrives(t, ArtChunks)
         \/ EndOfStream(t)
         \/ TimerFires(t)

SpecArt == Init /\ [][NextArt]_vars

\* What one read() may deliver under SpecNav: content, and the done event
\* with the ids and a new title for the conversation.
NavChunks == {Frame(Ev("content", FragA, 0)), Frame(Ev("done", NewTitle, 1))}

\* One turn while the user moves between conversations: the turn may start
\* in a conversation or in a new chat, and the chat view may be replaced at
\* any time of it.
NextNav ==
    \/ SendFirst
    \/ CreateNewChat
    \/ SelectConversation
    \/ DeleteConversation
    \/ Tick
    \/ \E t \in Turns :
         \/ FetchResolves(t)
         \/ ChunkArrives(t, NavChunks)
         \/ EndOfStream(t)
         \/ ReloadDone(t)
         \/ TimerFires(t)

SpecNav == Init /\ [][NextNav]_vars

\* read() gives a chunk early enough for a render deferred by it to be due
\* before the clock of the model stops.
EarlyChunk(t) ==
    /\ now + RENDER_THROTTLE_MS <= MaxNow
    /\ ChunkArrives(t, SendChunks)

\* One turn of content whose stream may fail, with the clock running and
\* the timers firing: time passes, and a timer that is due fires.
NextFlush ==
    \/ SendFirst
    \/ Tick
    \/ \E t \in Turns :
         \/ FetchResolves(t)
         \/ EarlyChunk(t)
         \/ TransportFault(t)
         \/ EndOfStream(t)
         \/ TimerFires(t)

SpecFlush ==
    Init /\ [][NextFlush]_vars /\ WF_vars(Tick) /\ \A t \in Turns : WF_vars(TimerFires(t))

\* The user moves between the conversations of the sidebar, also while
\* earlier requests are still in flight.
NextSelect ==
    \/ SelectCall
    \/ SelectResponse
    \/ SelectFails

SpecSelect == Init /\ [][NextSelect]_vars

\* One turn whose response is one content event with a text of MdTexts.
InitMd ==
    /\ isStreaming = FALSE
    /\ abortController = 0
    /\ streamReader = 0
    /\ currentConversation = 0
    /\ typingIndicator = "none"
    /\ container = FALSE
    /\ now = 0
    /\ started = 0
    /\ chunks = 0
    /\ pc = [t \in Turns |-> "idle"]
    /\ turn = [t \in Turns |-> NewTurn]
    /\ rest \in {Frame(Ev("content", text, 0)) : text \in MdTexts}
    /\ composer = EmptyComposer
    /\ selecting = NoSelect

\* read() gives the whole planned stream.
StreamWhole(t) ==
    /\ pc[t] = "read"
    /\ rest # <<>>
    /\ LET c == ProcessChunk(Ctx(t), rest)
       IN  /\ turn' = [turn EXCEPT ![t] = c.t]
           /\ typingIndicator' = c.typing
    /\ rest' = <<>>
    /\ UNCHANGED <<isStreaming, abortController, streamReader, currentConversation,
                   container, now, started, chunks, pc, composer, selecting>>

NextMd ==
    \/ SendFirst
    \/ \E t \in Turns :
         \/ FetchResolves(t)
         \/ StreamWhole(t)
         \/ StreamEnd(t)

SpecMd == InitMd /\ [][NextMd]_vars

\* The steps that settle the promise turn t awaits.
Settles(t) ==
    \/ FetchResolves(t)
    \/ FetchNotOk(t)
    \/ TransportFault(t)
    \/ EndOfStream(t)
    \/ ReloadDone(t)
    \/ ResumeReadClosed(t)
    \/ ResumeAborted(t)

SpecLife == Init /\ [][NextLife]_vars /\ \A t \in Turns : WF_vars(Settles(t))


\* ================================================================ claims
Alive(t) == pc[t] \in AlivePcs

ThrottledKinds == {"immediate", "deferred"}

\* C1: under every interleaving of sendMessage, cancelRequest, chunk
\* arrival, end-of-stream and the awaited conversation reload, at most one
\* turn (an invocation of sendMessage that passed its guards and has not run
\* its finally block) is alive at any time.
C1_AtMostOneTurnAlive == Cardinality({t \in Turns : Alive(t)}) <= 1

\* C2: once cancelRequest has returned for a turn that was awaiting a read,
\* no further chunk is read for that turn and its assistant message is not
\* modified again: no render replaces its text, no annotation block and no
\* artifact is appended.
C2_NoUpdateAfterCancel ==
    [][\A t \in Turns :
         turn[t].cancelledAt = "read" =>
           /\ turn'[t].wire = turn[t].wire
           /\ turn'[t].renders = turn[t].renders
           /\ turn'[t].html = turn[t].html
           /\ turn'[t].annotations = turn[t].annotations
           /\ turn'[t].images = turn[t].images
           /\ turn'[t].audios = turn[t].audios]_vars

\* C3: after a user cancellation, issued while the turn awaits the request
\* or a chunk read, the turn raises no error notification (Toast.error).
C3_CancelNoErrorToast ==
    [][\A t \in Turns :
         turn[t].cancelledAt \in {"fetch", "errbody", "read"} =>
           turn'[t].toasts = turn[t].toasts]_vars


\* The content events of a whole stream text, read at once: every data
\* line of every part between blank lines, the last part included.
RECURSIVE LinesOfParts(_)
LinesOfParts(parts) ==
    IF parts = <<>> THEN <<>>
    ELSE Split(Head(parts), <<NL>>) \o LinesOfParts(Tail(parts))

RECURSIVE ContentOfLines(_)
ContentOfLines(lines) ==
    IF lines = <<>> THEN <<>>
    ELSE LET line == Head(lines)
             data == IF StartsWith(line, DataTag) THEN JSONParse(Slice(line, Len(DataTag)))
                     ELSE SyntaxError
         IN  (IF data.type = "content" THEN data.content ELSE <<>>)
             \o ContentOfLines(Tail(lines))

ContentSent(w) == ContentOfLines(LinesOfParts(Split(w, <<NL, NL>>)))

ContentEvents(t) == {i \in DOMAIN turn[t].dispatched : turn[t].dispatched[i].type = "content"}

\* C4: when a turn ends by end-of-stream, the message shows the rendering
\* of the concatenation, in arrival order, of the content of every content
\* event received, whatever throttled renders happened or are still pending.
C4_FinalTextIsConcatenation ==
    \A t \in Turns :
      (turn[t].ended = "eos" /\ pc[t] \in {"reload", "done"}) =>
        turn[t].html = ParseMarkdown(ContentSent(turn[t].wire))

\* A turn ended by end-of-stream after two or more content events, one of
\* them in the residual buffer, while a deferred render was still pending.
C4_Witness ==
    \E t \in Turns :
      /\ turn[t].ended = "eos"
      /\ pc[t] = "done"
      /\ Cardinality(ContentEvents(t)) >= 2
      /\ turn[t].buffer # <<>>
      /\ turn[t].timers # <<>>

RendersApart(t, kinds) ==
    \A i, j \in DOMAIN turn[t].renders :
      (i < j /\ turn[t].renders[i].kind \in kinds /\ turn[t].renders[j].kind \in kinds) =>
        turn[t].renders[j].at - turn[t].renders[i].at >= RENDER_THROTTLE_MS

C8_AnnotationKept ==
    \A t \in Turns :
      ( /\ turn[t].ended = "eos"
        /\ pc[t] = "done"
        /\ turn[t].timers = <<>>
        /\ \E i \in DOMAIN turn[t].dispatched : turn[t].dispatched[i].type = "annotation" )
      => turn[t].annotations = 1

\* C9: if the thinking region of the message is open, a replacement of the
\* message text (immediate, deferred, final or residual-buffer render) that
\* still shows a thinking region leaves it open.
C9_ToggleStaysOpen ==
    [][\A t \in Turns :
         ( /\ turn[t].html.toggle
           /\ turn[t].open
           /\ turn'[t].renders # turn[t].renders
           /\ turn'[t].html.toggle )
         => turn'[t].open]_vars

\* C10: a transport fault that is no user cancellation (fetch rejected,
\* non-2xx response, a read that fails) raises an error notification from
\* the catch block, and the placeholder, if it was made, stays, with the
\* content, annotation and artifacts it showed when the fault happened.
C10_FaultNotifiedPlaceholderKept ==
    /\ [](\A t \in Turns :
            turn[t].ended = "fail" =>
              \E i \in DOMAIN turn[t].toasts : turn[t].toasts[i] = "handler")
    /\ [][\A t \in Turns :
            /\ turn[t].msgExists => turn'[t].msgExists
            /\ (turn'[t].ended = "fail" /\ turn[t].ended # "fail") =>
                 /\ turn'[t].html = turn[t].html
                 /\ turn'[t].renders = turn[t].renders
                 /\ turn'[t].annotations = turn[t].annotations
                 /\ turn'[t].images = turn[t].images
                 /\ turn'[t].audios = turn[t].audios]_vars

\* A read failed mid-stream after content had been rendered.
C10_Witness ==
    \E t \in Turns :
      /\ turn[t].ended = "fail"
      /\ turn[t].msgExists
      /\ turn[t].cancelledAt = "none"
      /\ turn[t].html.main # <<>>


\* The context of a turn that has made its placeholder and read nothing.
FreshCtx == [t |-> [NewTurn EXCEPT !.msgExists = TRUE], typing |-> "none"]

\* What the read loop has computed from the stream.
View(r) == <<r.dispatched, r.fullResponse, r.buffer, r.messageId, r.conversationId,
             r.annotationUrl, r.images, r.audios, r.toasts>>

\* C6: feeding a stream text to the read loop cut at arbitrary places
\* (inside a frame, inside a payload, between the two line terminators of
\* a separator) dispatches the same events in the same order, and leaves
\* the same buffer, as feeding the same text as one chunk; and the same
\* holds after end-of-stream, the residual buffer included.
C6_ChunkingIrrelevant ==
    \A t \in Turns :
      /\ pc[t] = "read" =>
           View(turn[t]) = View(ProcessChunk(FreshCtx, turn[t].wire).t)
      /\ (pc[t] \in {"reload", "done"} /\ turn[t].ended = "eos") =>
           View(turn[t]) = View(AfterLoop(ProcessChunk(FreshCtx, turn[t].wire)).t)

\* The loop has dispatched an event and has then read a chunk that ends
\* between the two line terminators of a separator: the buffer holds a
\* whole data line and one terminator, the other is still to come.
C6_Witness ==
    \E t \in Turns :
      /\ pc[t] = "read"
      /\ turn[t].dispatched # <<>>
      /\ turn[t].buffer = DataLine(Ev("content", FragA, 0)) \o <<NL>>
      /\ rest # <<>>
      /\ Head(rest) = NL

Malformed(line) ==
    StartsWith(line, DataTag) /\ JSONParse(Slice(line, Len(DataTag))) = SyntaxError

WellFormed(lines) == SelectSeq(lines, LAMBDA line : ~Malformed(line))

FramesOf(w) == LET parts == Split(w, <<NL, NL>>) IN SubSeq(parts, 1, Len(parts) - 1)

\* What the loop computes from the lines of the complete frames of w with
\* the malformed data lines taken out.
LoopWithoutMalformed(w) == DispatchLines(FreshCtx, WellFormed(LinesOfParts(FramesOf(w))))

\* The same for a stream that has ended, the residual buffer included.
EndWithoutMalformed(w) ==
    LET parts == Split(w, <<NL, NL>>)
        tail == parts[Len(parts)]
        c == AppendAnnotation(FinalRender(LoopWithoutMalformed(w)))
    IN  IF TrimNonEmpty(tail) THEN ResidualLines(c, WellFormed(Split(tail, <<NL>>))) ELSE c

ViewNoBuffer(r) == <<r.dispatched, r.fullResponse, r.messageId, r.conversationId,
                     r.annotationUrl, r.images, r.audios, r.toasts, r.html>>

\* C7: a data line whose payload is not valid JSON is skipped: the turn
\* stays in its read loop, raises no error notification for it, and has
\* dispatched the events and built the response text that the stream
\* without the malformed lines gives; the same after end-of-stream.
C7_MalformedSkipped ==
    \A t \in Turns :
      /\ (pc[t] = "read" /\ rest = <<>>) =>
           ViewNoBuffer(turn[t]) = ViewNoBuffer(LoopWithoutMalformed(turn[t].wire).t)
      /\ pc[t] = "read" =>
           /\ turn[t].dispatched = LoopWithoutMalformed(turn[t].wire).t.dispatched
           /\ turn[t].fullResponse = LoopWithoutMalformed(turn[t].wire).t.fullResponse
           /\ turn[t].toasts = LoopWithoutMalformed(turn[t].wire).t.toasts
      /\ (pc[t] \in {"reload", "done"} /\ turn[t].ended = "eos") =>
           ViewNoBuffer(turn[t]) = ViewNoBuffer(EndWithoutMalformed(turn[t].wire).t)

\* The turn is still reading after a valid content event, a malformed data
\* line and another valid content event, all dispatched or skipped.
C7_Witness ==
    \E t \in Turns :
      /\ pc[t] = "read"
      /\ LET lines == LinesOfParts(FramesOf(turn[t].wire))
         IN  \E i, j, k \in DOMAIN lines :
               /\ i < j /\ j < k
               /\ ~Malformed(lines[i]) /\ StartsWith(lines[i], DataTag)
               /\ Malformed(lines[j])
               /\ ~Malformed(lines[k]) /\ StartsWith(lines[k], DataTag)
      /\ Len(turn[t].fullResponse) = 2
      /\ turn[t].toasts = <<>>


\* The events of a sequence of lines: the payload of every data line that
\* is valid JSON, in order.
RECURSIVE EventsOfLines(_)
EventsOfLines(lines) ==
    IF lines = <<>> THEN <<>>
    ELSE LET line == Head(lines)
             data == IF StartsWith(line, DataTag) THEN JSONParse(Slice(line, Len(DataTag)))
                     ELSE SyntaxError
         IN  (IF data = SyntaxError THEN <<>> ELSE <<data>>) \o EventsOfLines(Tail(lines))

\* How many events of a sequence are of the given type.
CountType(events, type) == Cardinality({i \in DOMAIN events : events[i].type = type})

ErrorEvents(r) == CountType(r.dispatched, "error")

EventToasts(r) == Cardinality({i \in DOMAIN r.toasts : r.toasts[i] = "event"})

\* C11: an error event received in the read loop raises one notification
\* and does not stop the loop: the turn stays in the loop with the event
\* dispatched, and while it reads it has dispatched every event of every
\* complete frame received, those after an error event included.
C11_ErrorEventNotifiesLoopGoesOn ==
    /\ [](\A t \in Turns :
            /\ EventToasts(turn[t]) = ErrorEvents(turn[t])
            /\ pc[t] = "read" =>
                 turn[t].dispatched = EventsOfLines(LinesOfParts(FramesOf(turn[t].wire))))
    /\ [][\A t \in Turns :
            ErrorEvents(turn'[t]) > ErrorEvents(turn[t]) =>
              /\ pc[t] = "read"
              /\ pc'[t] = "read"
              /\ turn'[t].ended = "none"]_vars

\* A turn completed by end-of-stream after an error event, a content event
\* and a done event in that order, with the one notification of the event.
C11_Witness ==
    \E t \in Turns :
      /\ pc[t] = "done"
      /\ turn[t].ended = "eos"
      /\ turn[t].toasts = <<"event">>
      /\ Len(turn[t].dispatched) = 3
      /\ turn[t].dispatched[1].type = "error"
      /\ turn[t].dispatched[2].type = "content"
      /\ turn[t].dispatched[3].type = "done"
      /\ turn[t].fullResponse = FragA
      /\ turn[t].conversationId = 1


Released == ~isStreaming /\ abortController = 0 /\ streamReader = 0

\* C12: every turn that passed the send guards ends, however it ends
\* (completed, cancelled, failed, no message container), with isStreaming
\* false and abortController and streamReader null; and a turn whose
\* awaited promises are settled in the end does end so.
C12_TurnEndsReleased ==
    /\ [][\A t \in Turns : (pc[t] # "done" /\ pc'[t] = "done") => Released']_vars
    /\ \A t \in Turns : Alive(t) ~> (pc[t] = "done" /\ Released)

\* A turn that found no message container when its request was answered,
\* and ended.
C12_Witness ==
    \E t \in Turns :
      /\ pc[t] = "done"
      /\ turn[t].ended = "nocontainer"
      /\ Released


StepRank(step) ==
    CASE step = "cancelReader" -> 1
      [] step = "abort" -> 2
      [] step = "clearFlag" -> 3
      [] OTHER -> 4

\* C13: cancelRequest cancels the stream reader, then aborts the request
\* signal, then clears isStreaming, then removes the typing indicator: no
\* step comes before an earlier one, the last two are always made, and a
\* read that was pending is therefore closed, not aborted.
C13_CancelStepsInOrder ==
    \A t \in Turns :
      LET steps == turn[t].cancelSteps
      IN  /\ \A i, j \in DOMAIN steps : i < j => StepRank(steps[i]) < StepRank(steps[j])
          /\ turn[t].cancelledAt # "none" =>
               /\ Len(steps) >= 2
               /\ SubSeq(steps, Len(steps) - 1, Len(steps)) = <<"clearFlag", "hideTyping">>
          /\ turn[t].cancelledAt = "read" => pc[t] # "readAborted"

\* A turn cancelled while it awaited a read: all four steps were made.
C13_Witness ==
    \E t \in Turns :
      /\ turn[t].cancelledAt = "read"
      /\ turn[t].cancelSteps = <<"cancelReader", "abort", "clearFlag", "hideTyping">>
      /\ ~isStreaming
      /\ typingIndicator = "none"


\* The id of the last done event of a sequence of events, none when there
\* is no done event.
LastDoneId(events, none) ==
    LET dones == {i \in DOMAIN events : events[i].type = "done"}
    IN  IF dones = {} THEN none
        ELSE events[CHOOSE i \in dones : \A j \in dones : j <= i].id

\* Every event of a stream text, its unterminated last part included.
AllEvents(w) == EventsOfLines(LinesOfParts(Split(w, <<NL, NL>>)))

LoopEvents(w) == EventsOfLines(LinesOfParts(FramesOf(w)))

\* C14: a done event records its message_id and conversation_id and does
\* not stop the read loop: while the turn reads, it has dispatched every
\* event of the complete frames received, those after a done event
\* included, and its identifiers are those of the last done event among
\* them; when it has completed by end-of-stream its identifiers are those of
\* the last done event of the stream, the residual buffer included.
C14_DoneRecordedLoopGoesOn ==
    \A t \in Turns :
      /\ pc[t] = "read" =>
           /\ turn[t].dispatched = LoopEvents(turn[t].wire)
           /\ turn[t].messageId = LastDoneId(LoopEvents(turn[t].wire), 0)
           /\ turn[t].conversationId = LastDoneId(LoopEvents(turn[t].wire), 0)
      /\ (pc[t] \in {"reload", "done"} /\ turn[t].ended = "eos") =>
           /\ turn[t].messageId = LastDoneId(AllEvents(turn[t].wire), 0)
           /\ turn[t].conversationId = LastDoneId(AllEvents(turn[t].wire), 0)

\* The turn is still reading after a done event and a content event that
\* followed it, both dispatched.
C14_Witness ==
    \E t \in Turns :
      /\ pc[t] = "read"
      /\ Len(turn[t].dispatched) = 2
      /\ turn[t].dispatched[1] = Ev("done", <<>>, 2)
      /\ turn[t].dispatched[2].type = "content"
      /\ turn[t].conversationId = 2
      /\ turn[t].messageId = 2
      /\ turn[t].fullResponse # <<>>


HasDone(r) == \E i \in DOMAIN r.dispatched : r.dispatched[i].type = "done"

\* C15: when a turn that was sent with no current conversation completes by
\* end-of-stream after a done event, the conversation list is reloaded and
\* currentConversation becomes the conversation_id of that done event; when
\* it received no done event, it ends without touching currentConversation.
C15_NewConversationAdopted ==
    [][\A t \in Turns :
         turn[t].sentWith = 0 =>
           /\ (pc[t] = "read" /\ turn'[t].ended = "eos" /\ HasDone(turn'[t])) =>
                pc'[t] = "reload"
           /\ (pc[t] = "reload" /\ pc'[t] = "done") =>
                currentConversation' = LastDoneId(turn[t].dispatched, 0)
           /\ (pc[t] = "read" /\ turn'[t].ended = "eos" /\ ~HasDone(turn'[t])) =>
                /\ pc'[t] = "done"
                /\ currentConversation' = currentConversation]_vars


IsPrefix(p, s) == Len(p) <= Len(s) /\ SubSeq(s, 1, Len(p)) = p

RECURSIVE ContentOfEvents(_)
ContentOfEvents(events) ==
    IF events = <<>> THEN <<>>
    ELSE (IF Head(events).type = "content" THEN Head(events).content ELSE <<>>)
         \o ContentOfEvents(Tail(events))

\* C16: at every point of a turn fullResponse is a prefix of the
\* concatenation, in stream order, of the content fragments sent so far;
\* every step leaves it as it is or appends to it the fragments of the
\* content events dispatched in that step, and nothing else changes it.
C16_ResponseGrowsByContent ==
    /\ [](\A t \in Turns : IsPrefix(turn[t].fullResponse, ContentSent(turn[t].wire)))
    /\ [][\A t \in Turns :
            /\ IsPrefix(turn[t].dispatched, turn'[t].dispatched)
            /\ turn'[t].fullResponse =
                 turn[t].fullResponse
                 \o ContentOfEvents(SubSeq(turn'[t].dispatched, Len(turn[t].dispatched) + 1,
                                           Len(turn'[t].dispatched)))]_vars

\* A turn that has ended after two content events with another event
\* between them, the second one in the residual buffer.
C16_Witness ==
    \E t \in Turns :
      /\ pc[t] = "done"
      /\ Len(turn[t].dispatched) = 3
      /\ turn[t].dispatched[1].type = "content"
      /\ turn[t].dispatched[2].type \in {"error", "annotation", "done"}
      /\ turn[t].dispatched[3].type = "content"
      /\ turn[t].buffer # <<>>
      /\ turn[t].fullResponse = turn[t].dispatched[1].content \o turn[t].dispatched[3].content


GuardFails == isStreaming \/ (~TrimNonEmpty(composer.text) /\ composer.files = 0)

\* C17: sendMessage called while isStreaming is true, or with an input that
\* is empty once trimmed and no uploaded files, does nothing: no turn is
\* started (no request, no message, no typing indicator) and isStreaming,
\* abortController, streamReader, the uploaded files and the input text
\* are as before.
C17_GuardedSendIsNoOp ==
    [][(GuardFails /\ SendMessageCall) =>
         /\ started' = started
         /\ pc' = pc
         /\ turn' = turn
         /\ container' = container
         /\ typingIndicator' = typingIndicator
         /\ isStreaming' = isStreaming
         /\ abortController' = abortController
         /\ streamReader' = streamReader
         /\ composer'.text = composer.text
         /\ composer'.files = composer.files]_vars

\* sendMessage was called, and returned at its guards, while a turn was
\* streaming and the input held a message and an uploaded file.
C17_Witness ==
    /\ composer.ignored
    /\ isStreaming
    /\ composer.text = FragA
    /\ composer.files = 1
    /\ \E t \in Turns : pc[t] = "read"


ThinkState(r) ==
    IF r.thinkingClosed THEN "Closed" ELSE IF r.isThinking THEN "Thinking" ELSE "Idle"

\* C18: the thinking state of a turn changes only from Idle to Thinking,
\* when the accumulated text has come to contain an opening marker, and
\* from Thinking to Closed, when it has come to contain the closing marker
\* (both within one step when one step brings both); it never leaves Closed.
C18_ThinkingStateMachine ==
    [][\A t \in Turns :
         LET before == ThinkState(turn[t])
             after == ThinkState(turn'[t])
             text == turn'[t].fullResponse
         IN  \/ after = before
             \/ /\ before = "Idle"
                /\ after = "Thinking"
                /\ Includes(text, OpenMarker)
             \/ /\ before = "Thinking"
                /\ after = "Closed"
                /\ Includes(text, CloseMarker)
             \/ /\ before = "Idle"
                /\ after = "Closed"
                /\ Includes(text, OpenMarker)
                /\ Includes(text, CloseMarker)]_vars


NewEvents(t) ==
    SubSeq(turn'[t].dispatched, Len(turn[t].dispatched) + 1, Len(turn'[t].dispatched))

\* C19: each image_generated and each audio_generated event received in
\* the read loop adds exactly one artifact node to the message in the step
\* that dispatches it, whether or not a render is pending, and no other
\* step (a text render, the end of the turn) adds or removes one.
C19_OneArtifactPerEvent ==
    [][\A t \in Turns :
         /\ turn'[t].images =
              turn[t].images + CountType(NewEvents(t), "image_generated")
         /\ turn'[t].audios =
              turn[t].audios + CountType(NewEvents(t), "audio_generated")]_vars

\* A completed turn that shows one image and one audio after a deferred
\* render and the final render of its text.
C19_Witness ==
    \E t \in Turns :
      /\ pc[t] = "done"
      /\ turn[t].images = 1
      /\ turn[t].audios = 1
      /\ turn[t].timers = <<>>
      /\ \E i, j \in DOMAIN turn[t].renders :
           /\ i < j
           /\ turn[t].renders[i].kind = "deferred"
           /\ turn[t].renders[j].kind = "final"

EffectView(r) == <<r.fullResponse, r.messageId, r.conversationId, r.annotationUrl,
                   r.images, r.audios, r.toasts>>

\* C20: when the stream ends with an unterminated last frame in the buffer,
\* the events of its data lines have had the effect they would have had in
\* a terminated frame: the turn ends as it would have ended had the stream
\* carried the blank line too.
C20_ResidualAsTerminated ==
    \A t \in Turns :
      (pc[t] = "done" /\ turn[t].ended = "eos" /\ TrimNonEmpty(turn[t].buffer)) =>
        EffectView(turn[t])
          = EffectView(AfterLoop(ProcessChunk(FreshCtx, turn[t].wire \o <<NL, NL>>)).t)


\* The position of the first opening tag of a text, 0 when it has none.
FirstTag(x) ==
    LET starts == {i \in 1..Len(x) : StartMatchLen(x, i) > 0}
    IN  IF starts = {} THEN 0 ELSE CHOOSE i \in starts : \A j \in starts : i <= j

\* C21: parseMarkdown extracts only the first think region of its input:
\* with an unterminated opening tag everything after the tag is the
\* thinking content and what came before is the main text; with a closed
\* region the thinking content is what lies between the tags and the main
\* text is the text before the opening tag followed by the text after the
\* closing tag, a later <think> block included, with neither tag of the
\* region in it; a text with no opening tag is all main text.
C21_FirstThinkRegionOnly ==
    \A t \in Turns :
      (pc[t] = "done" /\ turn[t].ended = "eos") =>
        LET x == turn[t].fullResponse
            r == turn[t].html
            s == FirstTag(x)
        IN  IF s = 0 THEN r = NoThinking(x)
            ELSE LET before == SubSeq(x, 1, s - 1)
                     after == SubSeq(x, s + StartMatchLen(x, s), Len(x))
                     e == IndexOf(after, CloseMarker)
                 IN  IF e = 0
                     THEN /\ r.thinking = after
                          /\ r.toggle => r.main = before
                     ELSE /\ r.thinking = SubSeq(after, 1, e - 1)
                          /\ r.main = before \o SubSeq(after, e + Len(CloseMarker), Len(after))


\* C22: a turn that finds no message container when the stream has been
\* opened ends at once, with no placeholder, without an error notification,
\* with the typing indicator removed and isStreaming, abortController and
\* streamReader reset; and when the container was replaced during the turn,
\* a deferred render still renders the text received, and the end of the
\* stream still makes the final render and ends the turn as a completed
\* one, neither with an error notification.
C22_MissingContainerEndsQuietly ==
    [][\A t \in Turns :
         /\ (pc[t] = "fetch" /\ ~container /\ pc'[t] # "fetch") =>
               /\ pc'[t] = "done"
               /\ turn'[t].ended = "nocontainer"
               /\ ~turn'[t].msgExists
               /\ turn'[t].toasts = <<>>
               /\ typingIndicator' = "none"
               /\ Released'
         /\ (pc[t] = "read" /\ ~container /\ turn'[t] # turn[t]) =>
               /\ turn'[t].toasts = <<>>
               /\ turn'[t].ended \in {"none", "eos"}
               /\ Len(turn'[t].timers) < Len(turn[t].timers) =>
                     turn'[t].html = ParseMarkdown(turn'[t].fullResponse)
               /\ pc'[t] # "read" =>
                     /\ turn'[t].ended = "eos"
                     /\ turn'[t].html = ParseMarkdown(turn'[t].fullResponse)
                     /\ turn'[t].renders # <<>>
                     /\ turn'[t].renders[Len(turn'[t].renders)].kind = "final"]_vars

\* A turn that found no container has ended, with the user still on the
\* welcome screen.
C22_Witness ==
    \E t \in Turns :
      /\ pc[t] = "done"
      /\ turn[t].ended = "nocontainer"
      /\ ~container
      /\ Released


\* C23: at any time of a turn at most one deferred render timer is
\* outstanding, renderPending is true exactly while one is outstanding, and
\* a content event dispatched while renderPending is true leaves the
\* outstanding timer as it is and sets no other.
C23_OneDeferredRender ==
    [][\A t \in Turns :
         /\ Len(turn'[t].timers) <= 1
         /\ turn'[t].renderPending <=> turn'[t].timers # <<>>
         /\ (turn[t].renderPending /\ ContentEvents(t)' # ContentEvents(t)) =>
               turn'[t].timers = turn[t].timers]_vars

\* Two content events were dispatched with nothing rendered yet: the second
\* one arrived while the render of the first was pending.
C23_Witness ==
    \E t \in Turns :
      /\ pc[t] = "read"
      /\ turn[t].renderPending
      /\ Len(turn[t].timers) = 1
      /\ Cardinality(ContentEvents(t)) >= 2
      /\ turn[t].renders = <<>>


\* C24: when a content event is dispatched in the read loop with no render
\* pending and the response longer than at the last completed render, the
\* response is rendered at once if and only if at least RENDER_THROTTLE_MS
\* have passed since the last completed render; otherwise nothing is
\* rendered and one timer is set for the time of the last render plus
\* RENDER_THROTTLE_MS.  The deferred render shows the whole response, sets
\* lastRenderTime to the time it runs and lastRenderedContentLength to the
\* length of the response, and clears renderPending.
C24_ImmediateOrDeferred ==
    [][\A t \in Turns :
         LET r == turn[t]
             q == turn'[t]
         IN  /\ (/\ pc[t] = "read"
                 /\ pc'[t] = "read"
                 /\ ~r.renderPending
                 /\ ContentEvents(t)' # ContentEvents(t)
                 /\ Len(q.fullResponse) > r.lastRenderedContentLength) =>
                   IF now - r.lastRenderTime >= RENDER_THROTTLE_MS
                   THEN /\ q.renders = Append(r.renders, [at |-> now, kind |-> "immediate"])
                        /\ q.html = ParseMarkdown(q.fullResponse)
                        /\ q.lastRenderTime = now
                        /\ q.lastRenderedContentLength = Len(q.fullResponse)
                        /\ ~q.renderPending
                        /\ q.timers = r.timers
                   ELSE /\ q.renders = r.renders
                        /\ q.html = r.html
                        /\ q.lastRenderTime = r.lastRenderTime
                        /\ q.lastRenderedContentLength = r.lastRenderedContentLength
                        /\ q.renderPending
                        /\ q.timers = <<r.lastRenderTime + RENDER_THROTTLE_MS>>
             /\ Len(q.timers) < Len(r.timers) =>
                   /\ r.timers[1] <= now
                   /\ q.renders = Append(r.renders, [at |-> now, kind |-> "deferred"])
                   /\ q.html = ParseMarkdown(r.fullResponse)
                   /\ q.lastRenderTime = now
                   /\ q.lastRenderedContentLength = Len(r.fullResponse)
                   /\ ~q.renderPending]_vars

\* A turn has made a deferred render and, a throttle period later, an
\* immediate one.
C24_Witness ==
    \E t \in Turns :
      \E i, j \in DOMAIN turn[t].renders :
        /\ i < j
        /\ turn[t].renders[i].kind = "deferred"
        /\ turn[t].renders[j].kind = "immediate"


\* C25: when a done event that carries a title is dispatched in the read
\* loop of a turn sent in a conversation that is still the current one,
\* that conversation (which is the one the event names) has been given the
\* title once the event is dispatched.
C25_TitleApplied ==
    [][\A t \in Turns :
         \A i \in DOMAIN turn'[t].dispatched \ DOMAIN turn[t].dispatched :
           LET data == turn'[t].dispatched[i]
           IN  (/\ pc'[t] = "read"
                /\ data.type = "done"
                /\ data.content # <<>>
                /\ turn[t].sentWith = data.id
                /\ currentConversation = data.id) =>
                 \E k \in DOMAIN turn'[t].titles :
                   turn'[t].titles[k] = [id |-> data.id, title |-> data.content]]_vars


C27_AliveTurnOwnsState ==
    \A t \in Turns :
      (Alive(t) /\ turn[t].cancelledAt = "none") =>
        (isStreaming /\ abortController = t)


\* C28: a turn that was sent inside an existing conversation does not
\* assign currentConversation when it completes, whatever createNewChat,
\* selectConversation or deleteConversation did during the stream: the step
\* in which the turn ends leaves currentConversation as it was, null if the
\* user had opened a new chat.
C28_TurnInConversationKeepsCurrent ==
    [][\A t \in Turns :
         (turn[t].sentWith # 0 /\ Alive(t) /\ ~Alive(t)') =>
           currentConversation' = currentConversation]_vars


\* What the regular expressions of parseMarkdown find in a text: no opening
\* tag ("none"), an opening tag with no closing tag after it ("open"), an
\* opening tag and a closing tag after it ("closed").
ThinkRegion(text) ==
    LET s == FirstTag(text)
    IN  IF s = 0 THEN "none"
        ELSE IF Includes(SubSeq(text, s + StartMatchLen(text, s), Len(text)), CloseMarker)
             THEN "closed"
             ELSE "open"

\* C29: after each content event of the read loop the thinking indicator
\* agrees with parseMarkdown applied to the text received so far: the turn
\* is Thinking exactly when parseMarkdown finds an unterminated thinking
\* region in it, and it is Closed only if parseMarkdown finds a closed one.
C29_IndicatorAgreesWithRenderer ==
    \A t \in Turns :
      (pc[t] = "read" /\ ContentEvents(t) # {}) =>
        /\ ThinkState(turn[t]) = "Thinking" <=> ThinkRegion(turn[t].fullResponse) = "open"
        /\ ThinkState(turn[t]) = "Closed" => ThinkRegion(turn[t].fullResponse) = "closed"


\* C30: once every selectConversation call has been answered, all of them
\* with success, currentConversation is the conversation that the most
\* recent call asked for, in whatever order the answers arrived.
C30_LastSelectionWins ==
    (selecting.pending = <<>> /\ ~selecting.failed /\ selecting.last # 0) =>
      currentConversation = selecting.last

====
